---- MODULE Spec2Model ----
(***************************************************************************)
(* Model of cmd/mirror/main.go: one producer (the S3 listing loop of       *)
(* main) sends every listed object on the buffered channel uploadQueue;    *)
(* `threads` worker goroutines receive from it, run the retry loop around  *)
(* uploadObject, add to the four atomic counters and call logProgress,     *)
(* which is gated by rate.Sometimes{Interval: time.Minute}.                *)
(*                                                                         *)
(* Durations are in milliseconds.  Objects are named by their position in  *)
(* the listing (1..numObjects).                                            *)
(*                                                                         *)
(* redundantSize and the backoff computation are also modelled on their    *)
(* own, with the 64-bit and float64 arithmetic of the code (SpecSize,      *)
(* SpecBackoff).                                                           *)
(***************************************************************************)
EXTENDS Integers, Sequences, FiniteSets, TLC

(* ---- bounds of the model ---- *)
MaxObjects == 2
MaxThreads == 2
MaxKeys == 1
MaxJ == 1
PairMaxJ == 3
MaxBackoffJ == 70
RetryMaxJ == 17

(* ---- program constants ---- *)
SectorSize == 4194304
MinShards == 10
TotalShards == 30
Interval == 60000
MaxSleep == 60000

VARIABLES
    threads,        \* the -threads flag: channel capacity and number of workers
    numObjects,     \* number of objects the source bucket lists
    held,           \* keys the destination held before the run
    transferred,    \* keys whose uploadObject call returned nil in this run
    mainPc,         \* "list" | "send" | "exited"
    exitCode,       \* -1 while running, 0 after main returns, 1 after log.Fatal
    pageNo,         \* pages fetched so far by the paginator
    next,           \* position in the listing of the next object to send
    fatalLog,       \* "failed to list objects" has been logged
    uploadQueue,    \* the buffered channel, oldest first
    pc, obj, j, uploadErr, sleepTime, remaining,   \* per worker
    uploadedBytes, redundantBytes, totalBytes, uploadedObjects,
    sCount, sMu, sinceLast,                        \* rate.Sometimes
    ldRedundant, ldTotal, ldN,                     \* locals of the logProgress closure
    progressLog,    \* the "upload progress" lines, oldest first
    sinceEmit,      \* time since the last "upload progress" line was written
    completeLog,    \* number of "upload complete" lines
    failedLog,      \* number of "upload failed" lines
    dequeues,       \* per object, number of times it was received from the channel
    counted,        \* per object, number of times it was added to uploadedObjects
    ingestOpts,     \* the options carried by the UploadObject calls made so far
    attemptLog,     \* per worker, "attempt" of the last "upload attempt failed" line
                    \* of the running retry loop, 0 when no attempt of it has failed
    fnIn, fnOut     \* arguments and result of a function applied on its own

producerVars == <<mainPc, exitCode, pageNo, next, fatalLog>>
workerVars == <<pc, obj, j, uploadErr, sleepTime, remaining>>
counterVars == <<uploadedBytes, redundantBytes, totalBytes, uploadedObjects>>
sometimesVars == <<sCount, sMu, sinceLast>>
snapVars == <<ldRedundant, ldTotal, ldN>>
logVars == <<progressLog, sinceEmit, completeLog, failedLog>>
configVars == <<threads, numObjects, held>>
attemptVars == <<ingestOpts, attemptLog>>
fnVars == <<fnIn, fnOut>>
vars == <<configVars, attemptVars, fnVars, transferred, producerVars, uploadQueue,
          workerVars, counterVars, sometimesVars, snapVars, logVars, dequeues, counted>>

Workers == 1..threads
Objects == 1..numObjects

Min(a, b) == IF a < b THEN a ELSE b
Max(a, b) == IF a > b THEN a ELSE b

(* ---- pure functions ---- *)

\* obj.Size of the k-th listed object: 0, 1, then whole multiples of 10 sectors
ObjSize(k) == IF k = 1 THEN 0 ELSE IF k = 2 THEN 1 ELSE (k - 2) * 10 * SectorSize

CeilDiv(a, b) == (a + b - 1) \div b

\* math.Ceil(float64(size)/float64(minShards*SectorSize)) * totalShards * SectorSize
redundantSize(size, minShards, totalShards) ==
    CeilDiv(size, minShards * SectorSize) * totalShards * SectorSize

RECURSIVE IntPow(_, _)
IntPow(b, e) == IF e = 0 THEN 1 ELSE b * IntPow(b, e - 1)

\* 2 + frand.Float64() lies in [2, 3); the model draws it from these fractions
Bases == {<<2, 1>>, <<5, 2>>}

\* whether math.Pow(base, jj) milliseconds exceeds time.Minute; powers grow with jj,
\* so the power is only computed while the previous one was within the cap
RECURSIVE OverMinute(_, _)
OverMinute(base, jj) ==
    /\ jj > 0
    /\ \/ OverMinute(base, jj - 1)
       \/ IntPow(base[1], jj) \div IntPow(base[2], jj) > MaxSleep

\* sleepTime of main.go:229-232, for attempt numbers whose power fits an int64 duration
SleepTime(base, jj) ==
    IF OverMinute(base, jj) THEN MaxSleep
    ELSE IntPow(base[1], jj) \div IntPow(base[2], jj)

(* ---- 64-bit and float64 arithmetic ---- *)
(* Sizes near 2^53 and durations near 2^63 are beyond the integers of TLC,  *)
(* so uint64, int64 and float64 values are kept as sequences of bits, least *)
(* significant bit first, without leading zero bits (0 is <<>>).            *)

Uint64Bits == 64
\* bits of a float64 significand
MantissaBits == 53
\* bits of rhp2.SectorSize = 1 << 22
SectorBits == 22

RECURSIVE Bits(_)
Bits(n) == IF n = 0 THEN <<>> ELSE <<n % 2>> \o Bits(n \div 2)

RECURSIVE Val(_)
Val(b) == IF b = <<>> THEN 0 ELSE b[1] + 2 * Val(Tail(b))

Norm(b) ==
    LET ones == {i \in 1..Len(b) : b[i] = 1}
    IN IF ones = {} THEN <<>>
       ELSE SubSeq(b, 1, CHOOSE i \in ones : \A k \in ones : k <= i)

Shl(b, n) == IF b = <<>> THEN <<>> ELSE [i \in 1..n |-> 0] \o b
Shr(b, n) == SubSeq(b, n + 1, Len(b))
\* b mod 2^n
Low(b, n) == Norm(SubSeq(b, 1, Min(n, Len(b))))
Pow2(n) == Shl(<<1>>, n)

Less(a, b) ==
    IF Len(a) # Len(b) THEN Len(a) < Len(b)
    ELSE LET diff == {i \in 1..Len(a) : a[i] # b[i]}
         IN diff # {} /\ LET top == CHOOSE i \in diff : \A k \in diff : k <= i
                         IN a[top] < b[top]
Leq(a, b) == ~Less(b, a)

\* sums, products and quotients are computed on digits of LimbBits bits
LimbBits == 20
LimbBase == IntPow(2, LimbBits)

Limbs(b) ==
    [k \in 1..CeilDiv(Len(b), LimbBits) |->
        Val(SubSeq(b, (k - 1) * LimbBits + 1, Min(k * LimbBits, Len(b))))]

OfLimbs(l) ==
    Norm([i \in 1..(LimbBits * Len(l)) |->
            (l[((i - 1) \div LimbBits) + 1] \div IntPow(2, (i - 1) % LimbBits)) % 2])

RECURSIVE AddL(_, _, _, _)
AddL(x, y, k, c) ==
    IF k > Len(x) /\ k > Len(y) THEN <<c>>
    ELSE LET v == (IF k <= Len(x) THEN x[k] ELSE 0) + (IF k <= Len(y) THEN y[k] ELSE 0) + c
         IN <<v % LimbBase>> \o AddL(x, y, k + 1, v \div LimbBase)

Add(a, b) == OfLimbs(AddL(Limbs(a), Limbs(b), 1, 0))

RECURSIVE MulL(_, _, _, _)
MulL(x, c, k, carry) ==
    IF k > Len(x) THEN <<carry>>
    ELSE <<(x[k] * c + carry) % LimbBase>>
            \o MulL(x, c, k + 1, (x[k] * c + carry) \div LimbBase)

\* b * c for a c below 2^10
MulSmall(b, c) == OfLimbs(MulL(Limbs(b), c, 1, 0))

RECURSIVE DivL(_, _, _, _)
DivL(x, d, k, rem) ==
    IF k = 0 THEN [q |-> <<>>, r |-> rem]
    ELSE LET lower == DivL(x, d, k - 1, (rem * LimbBase + x[k]) % d)
         IN [q |-> Append(lower.q, (rem * LimbBase + x[k]) \div d), r |-> lower.r]

\* quotient and remainder of b by a d below 2^10
DivSmall(b, d) ==
    LET res == DivL(Limbs(b), d, Len(Limbs(b)), 0) IN [q |-> OfLimbs(res.q), r |-> res.r]

\* round-to-nearest-even of the integer b, with `sticky` telling whether a non-zero
\* fraction follows the bits of b, to MantissaBits significant bits: the significand
\* and the number of bits dropped
RoundEven(b, sticky) ==
    IF Len(b) <= MantissaBits THEN [m |-> b, s |-> 0]
    ELSE LET s == Len(b) - MantissaBits
             keep == Shr(b, s)
             up == b[s] = 1 /\ (sticky \/ Low(b, s - 1) # <<>> \/ keep[1] = 1)
         IN [m |-> IF up THEN Add(keep, <<1>>) ELSE keep, s |-> s]

\* float64(size) for a uint64 size: the nearest float64, as the integer it stands for
Float64OfUint64(size) == Shl(RoundEven(size, FALSE).m, RoundEven(size, FALSE).s)

\* shard counts are below 2^MaxShardBits
MaxShardBits == 8

\* math.Ceil(f / float64(uint64(minShards)*SectorSize)) for an integral float64 f:
\* the quotient, computed with enough binary digits after the point, is rounded to
\* a float64 first and then taken to the next integer
CeilOfQuotient(f, minShards) ==
    IF f = <<>> THEN <<>>
    ELSE LET g == Max(0, MantissaBits + 1 + MaxShardBits - Len(f))
             t == DivSmall(Shl(f, g), minShards)
             frac == g + SectorBits
             rnd == RoundEven(t.q, t.r # 0)
         IN IF rnd.s >= frac THEN Shl(rnd.m, rnd.s - frac)
            ELSE IF Low(rnd.m, frac - rnd.s) = <<>> THEN Shr(rnd.m, frac - rnd.s)
            ELSE Add(Shr(rnd.m, frac - rnd.s), <<1>>)

\* redundantSize of main.go:106-108 on a uint64 size, with the float64 division and
\* the uint64 products of the code
redundantSize64(size, minShards, totalShards) ==
    Low(Shl(MulSmall(CeilOfQuotient(Float64OfUint64(size), minShards), totalShards),
            SectorBits), Uint64Bits)

\* math.Pow(base, float64(jj)) for a base n/1 or n/2 is kept by pow = n^jj. It is
\* exactly base^jj when that is a float64: a power of two is, n^jj / 2^jj is as long
\* as n^jj has no more than MantissaBits bits
PowExact(base, pow) == base[1] = 2 \/ Len(pow) <= MantissaBits

\* the integer part of base^jj
PowFloor(base, pow, jj) == IF base[2] = 1 THEN pow ELSE Shr(pow, jj)

\* time.Duration(x) of a float64 with integer part x >= 0: the int64 x when it fits;
\* otherwise the result depends on the architecture: the smallest int64 (amd64) or
\* the largest one (arm64). An int64 is kept as its 64-bit two's complement pattern.
Int64OfFloat(x) ==
    IF Len(x) < Uint64Bits THEN {x}
    ELSE {Pow2(Uint64Bits - 1), [i \in 1..(Uint64Bits - 1) |-> 1]}

Negative(d) == Len(d) = Uint64Bits

\* d * time.Millisecond on int64: the product wraps; a Duration counts nanoseconds
TimesMillisecond(d) == Low(MulSmall(MulSmall(d, 1000), 1000), Uint64Bits)

\* time.Minute
Minute == TimesMillisecond(Bits(MaxSleep))

\* sleepTime of main.go:229-232 as an int64 Duration, given the int64 the conversion
\* of math.Pow's result gave
SleepTime64(conv) ==
    IF ~Negative(TimesMillisecond(conv)) /\ Less(Minute, TimesMillisecond(conv))
    THEN Minute ELSE TimesMillisecond(conv)

\* the -worker.contractset flag
ContractSet == "autopilot"

\* api.UploadObjectOptions{}, the options uploadObject hands to workerClient.UploadObject:
\* the zero value, no field is set
UploadObjectOptions == [contractSet |-> "", minShards |-> 0, totalShards |-> 0]

\* the query workerUploadObject puts on its PUT request
workerUploadObject(contractSet, minShards, totalShards) ==
    [contractSet |-> contractSet, minShards |-> minShards, totalShards |-> totalShards]

\* the ingest calls uploadObject has made after one more call of it: GetObject comes
\* first, UploadObject is called only when it succeeded
IngestCalls(calls, getOK) == IF getOK THEN calls \cup {UploadObjectOptions} ELSE calls

\* the error uploadObject returns, given whether GetObject and then UploadObject succeed
uploadObject(getOK, putOK) ==
    IF ~getOK THEN "err" ELSE IF ~putOK THEN "err" ELSE "nil"

\* variant: a read-modify-write whose update is lost when the counter was already written
LostUpdateAdd(counter, delta) == IF counter > 0 THEN counter ELSE counter + delta

\* atomic.AddUint64
AtomicAdd(counter, delta) == counter + delta

RECURSIVE SumSize(_)
SumSize(S) == IF S = {} THEN 0
              ELSE LET k == CHOOSE x \in S : TRUE IN ObjSize(k) + SumSize(S \ {k})

RECURSIVE SumRedundant(_)
SumRedundant(S) ==
    IF S = {} THEN 0
    ELSE LET k == CHOOSE x \in S : TRUE
         IN redundantSize(ObjSize(k), MinShards, TotalShards) + SumRedundant(S \ {k})

(* ---- the source listing ---- *)

NumPages == IF numObjects = 0 THEN 1 ELSE CeilDiv(numObjects, MaxKeys)
PageEnd(p) == Min(p * MaxKeys, numObjects)
HasMorePages == pageNo < NumPages

Running == mainPc # "exited"

\* the state after main.go:169-253: flags parsed, channel made, workers started
Start ==
    /\ transferred = {}
    /\ mainPc = "list" /\ exitCode = -1 /\ pageNo = 0 /\ next = 1 /\ fatalLog = FALSE
    /\ uploadQueue = <<>>
    /\ pc = [w \in 1..threads |-> "recv"]
    /\ obj = [w \in 1..threads |-> 0]
    /\ j = [w \in 1..threads |-> 0]
    /\ uploadErr = [w \in 1..threads |-> "nil"]
    /\ sleepTime = [w \in 1..threads |-> 0]
    /\ remaining = [w \in 1..threads |-> 0]
    /\ uploadedBytes = 0 /\ redundantBytes = 0 /\ totalBytes = 0 /\ uploadedObjects = 0
    /\ sCount = 0 /\ sMu = 0 /\ sinceLast = Interval
    /\ ldRedundant = 0 /\ ldTotal = 0 /\ ldN = 0
    /\ progressLog = <<>> /\ sinceEmit = Interval
    /\ completeLog = 0
    /\ failedLog = 0
    /\ dequeues = [o \in 1..numObjects |-> 0]
    /\ counted = [o \in 1..numObjects |-> 0]
    /\ ingestOpts = {}
    /\ attemptLog = [w \in 1..threads |-> 0]
    /\ fnOut = <<>>

\* a first run: the destination holds nothing yet
Init ==
    /\ threads \in 0..MaxThreads
    /\ numObjects \in 0..MaxObjects
    /\ held = {}
    /\ Start
    /\ fnIn = [f |-> "none"]

(* ---- producer: main.go:259-268 ---- *)

\* variant: the listing error is logged with log.Error and the loop goes on
ListErrorLogged ==
    /\ Running /\ mainPc = "list" /\ HasMorePages
    /\ fatalLog' = TRUE
    /\ pageNo' = pageNo + 1
    /\ UNCHANGED <<mainPc, exitCode, next, configVars, attemptVars, fnVars,
                   transferred, uploadQueue, workerVars, counterVars, sometimesVars,
                   snapVars, logVars, dequeues, counted>>

\* paginator.NextPage fails: log.Fatal writes the line and exits with status 1
ListError ==
    /\ Running /\ mainPc = "list" /\ HasMorePages
    /\ fatalLog' = TRUE
    /\ mainPc' = "exited" /\ exitCode' = 1
    /\ UNCHANGED <<pageNo, next, configVars, attemptVars, fnVars, transferred,
                   uploadQueue, workerVars, counterVars, sometimesVars, snapVars,
                   logVars, dequeues, counted>>

ListPage ==
    /\ Running /\ mainPc = "list" /\ HasMorePages
    /\ pageNo' = pageNo + 1
    /\ mainPc' = IF next <= PageEnd(pageNo + 1) THEN "send" ELSE "list"
    /\ UNCHANGED <<exitCode, next, fatalLog, configVars, attemptVars, fnVars,
                   transferred, uploadQueue, workerVars, counterVars, sometimesVars,
                   snapVars, logVars, dequeues, counted>>

\* variant: the channel is unbounded, a send never blocks
SendUnbounded ==
    /\ Running /\ mainPc = "send"
    /\ uploadQueue' = Append(uploadQueue, next)
    /\ next' = next + 1
    /\ mainPc' = IF next + 1 <= PageEnd(pageNo) THEN "send" ELSE "list"
    /\ UNCHANGED <<exitCode, pageNo, fatalLog, configVars, attemptVars, fnVars,
                   transferred, workerVars, counterVars, sometimesVars, snapVars,
                   logVars, dequeues, counted>>

\* uploadQueue <- obj : blocks while the channel holds cap(uploadQueue) = threads items
Send ==
    /\ Running /\ mainPc = "send"
    /\ Len(uploadQueue) < threads
    /\ uploadQueue' = Append(uploadQueue, next)
    /\ next' = next + 1
    /\ mainPc' = IF next + 1 <= PageEnd(pageNo) THEN "send" ELSE "list"
    /\ UNCHANGED <<exitCode, pageNo, fatalLog, configVars, attemptVars, fnVars,
                   transferred, workerVars, counterVars, sometimesVars, snapVars,
                   logVars, dequeues, counted>>

\* HasMorePages is false: main returns and the process exits with status 0
MainReturn ==
    /\ Running /\ mainPc = "list" /\ ~HasMorePages
    /\ mainPc' = "exited" /\ exitCode' = 0
    /\ UNCHANGED <<pageNo, next, fatalLog, configVars, attemptVars, fnVars,
                   transferred, uploadQueue, workerVars, counterVars, sometimesVars,
                   snapVars, logVars, dequeues, counted>>

(* ---- workers: main.go:217-252 ---- *)

\* variant: the receive reads the oldest item and leaves it in the channel
DequeuePeek(w) ==
    /\ Running /\ w \in Workers /\ pc[w] = "recv"
    /\ uploadQueue # <<>>
    /\ obj' = [obj EXCEPT ![w] = Head(uploadQueue)]
    /\ dequeues' = [dequeues EXCEPT ![Head(uploadQueue)] = @ + 1]
    /\ j' = [j EXCEPT ![w] = 0]
    /\ pc' = [pc EXCEPT ![w] = "upload"]
    /\ UNCHANGED <<uploadQueue, uploadErr, sleepTime, remaining, configVars,
                   attemptVars, fnVars, transferred, producerVars, counterVars,
                   sometimesVars, snapVars, logVars, counted>>

\* variant: the receive hands out the newest item of the channel
DequeueNewest(w) ==
    /\ Running /\ w \in Workers /\ pc[w] = "recv"
    /\ uploadQueue # <<>>
    /\ obj' = [obj EXCEPT ![w] = uploadQueue[Len(uploadQueue)]]
    /\ uploadQueue' = SubSeq(uploadQueue, 1, Len(uploadQueue) - 1)
    /\ dequeues' = [dequeues EXCEPT ![uploadQueue[Len(uploadQueue)]] = @ + 1]
    /\ j' = [j EXCEPT ![w] = 0]
    /\ pc' = [pc EXCEPT ![w] = "upload"]
    /\ UNCHANGED <<uploadErr, sleepTime, remaining, configVars, attemptVars, fnVars,
                   transferred, producerVars, counterVars, sometimesVars, snapVars,
                   logVars, counted>>

\* for obj := range uploadQueue; log "starting upload"; j := 0
Dequeue(w) ==
    /\ Running /\ w \in Workers /\ pc[w] = "recv"
    /\ uploadQueue # <<>>
    /\ obj' = [obj EXCEPT ![w] = Head(uploadQueue)]
    /\ uploadQueue' = Tail(uploadQueue)
    /\ dequeues' = [dequeues EXCEPT ![Head(uploadQueue)] = @ + 1]
    /\ j' = [j EXCEPT ![w] = 0]
    /\ pc' = [pc EXCEPT ![w] = "upload"]
    /\ UNCHANGED <<uploadErr, sleepTime, remaining, configVars, attemptVars, fnVars,
                   transferred, producerVars, counterVars, sometimesVars, snapVars,
                   logVars, counted>>

\* uploadObject returns a checksum and a nil error: the destination stored the object;
\* the retry loop breaks, which ends the scope of j
AttemptOK(w) ==
    /\ Running /\ w \in Workers /\ pc[w] = "upload"
    /\ uploadObject(TRUE, TRUE) = "nil"
    /\ transferred' = transferred \cup {obj[w]}
    /\ uploadErr' = [uploadErr EXCEPT ![w] = "nil"]
    /\ ingestOpts' = IngestCalls(ingestOpts, TRUE)
    /\ j' = [j EXCEPT ![w] = 0]
    /\ attemptLog' = [attemptLog EXCEPT ![w] = 0]
    /\ pc' = [pc EXCEPT ![w] = "afterLoop"]
    /\ UNCHANGED <<obj, sleepTime, remaining, configVars, fnVars,
                   producerVars, uploadQueue, counterVars, sometimesVars, snapVars,
                   logVars, dequeues, counted>>

\* variant: the attempt field is the loop counter itself, counted from zero
AttemptNumberFromZero(jj) == jj

\* zap.Int("attempt", j+1)
AttemptNumber(jj) == jj + 1

\* variant: a failed attempt leaves the retry loop at once
AttemptFailBreak(w, bound) ==
    /\ Running /\ w \in Workers /\ pc[w] = "upload"
    /\ j[w] < bound
    /\ uploadErr' = [uploadErr EXCEPT ![w] = "err"]
    /\ \E getOK \in BOOLEAN : ingestOpts' = IngestCalls(ingestOpts, getOK)
    /\ attemptLog' = [attemptLog EXCEPT ![w] = AttemptNumber(j[w])]
    /\ pc' = [pc EXCEPT ![w] = "afterLoop"]
    /\ UNCHANGED <<obj, j, sleepTime, remaining, configVars, fnVars,
                   transferred, producerVars, uploadQueue, counterVars, sometimesVars,
                   snapVars, logVars, dequeues, counted>>

\* variant: the retry loop is bounded, for j := 0; j < 10; j++
AttemptFailBounded(w, bound) ==
    /\ Running /\ w \in Workers /\ pc[w] = "upload"
    /\ j[w] < bound
    /\ uploadErr' = [uploadErr EXCEPT ![w] = "err"]
    /\ \E getOK \in BOOLEAN : ingestOpts' = IngestCalls(ingestOpts, getOK)
    /\ attemptLog' = [attemptLog EXCEPT ![w] = AttemptNumber(j[w])]
    /\ \E base \in Bases :
          /\ sleepTime' = [sleepTime EXCEPT ![w] = SleepTime(base, j[w])]
          /\ remaining' = [remaining EXCEPT ![w] = 0]
    /\ pc' = [pc EXCEPT ![w] = IF j[w] + 1 < 10 THEN "sleep" ELSE "afterLoop"]
    /\ UNCHANGED <<obj, j, configVars, fnVars, transferred, producerVars, uploadQueue,
                   counterVars, sometimesVars, snapVars, logVars, dequeues, counted>>

\* uploadObject returns an error, because GetObject failed or because UploadObject
\* failed: log "upload attempt failed", compute sleepTime, time.Sleep(sleepTime).
\* bound caps the attempt number j in the model.
AttemptFail(w, bound) ==
    /\ Running /\ w \in Workers /\ pc[w] = "upload"
    /\ j[w] < bound
    /\ \E getOK, putOK \in BOOLEAN :
          /\ uploadObject(getOK, putOK) # "nil"
          /\ uploadErr' = [uploadErr EXCEPT ![w] = uploadObject(getOK, putOK)]
          /\ ingestOpts' = IngestCalls(ingestOpts, getOK)
    /\ attemptLog' = [attemptLog EXCEPT ![w] = AttemptNumber(j[w])]
    /\ \E base \in Bases :
          /\ sleepTime' = [sleepTime EXCEPT ![w] = SleepTime(base, j[w])]
          /\ remaining' = [remaining EXCEPT ![w] = Max(0, SleepTime(base, j[w]))]
    /\ pc' = [pc EXCEPT ![w] = "sleep"]
    /\ UNCHANGED <<obj, j, configVars, fnVars, transferred, producerVars, uploadQueue,
                   counterVars, sometimesVars, snapVars, logVars, dequeues, counted>>

\* time.Sleep returns; j++ and the next attempt starts
Wake(w) ==
    /\ Running /\ w \in Workers /\ pc[w] = "sleep"
    /\ remaining[w] = 0
    /\ j' = [j EXCEPT ![w] = @ + 1]
    /\ sleepTime' = [sleepTime EXCEPT ![w] = 0]
    /\ pc' = [pc EXCEPT ![w] = "upload"]
    /\ UNCHANGED <<obj, uploadErr, remaining, configVars, attemptVars, fnVars,
                   transferred, producerVars, uploadQueue, counterVars, sometimesVars,
                   snapVars, logVars, dequeues, counted>>

\* after the loop: if uploadErr != nil, log "upload failed"; compute redundantSize;
\* atomic.AddUint64(&uploadedBytes, uint64(obj.Size))
AddUploadedBytes(w) ==
    /\ Running /\ w \in Workers /\ pc[w] = "afterLoop"
    /\ failedLog' = IF uploadErr[w] # "nil" THEN failedLog + 1 ELSE failedLog
    /\ uploadedBytes' = AtomicAdd(uploadedBytes, ObjSize(obj[w]))
    /\ pc' = [pc EXCEPT ![w] = "addObjects"]
    /\ UNCHANGED <<obj, j, uploadErr, sleepTime, remaining, redundantBytes, totalBytes,
                   uploadedObjects, configVars, attemptVars, fnVars, transferred,
                   producerVars, uploadQueue, sometimesVars, snapVars, progressLog,
                   sinceEmit, completeLog, dequeues, counted>>

\* atomic.AddUint64(&uploadedObjects, 1)
AddUploadedObjects(w) ==
    /\ Running /\ w \in Workers /\ pc[w] = "addObjects"
    /\ uploadedObjects' = AtomicAdd(uploadedObjects, 1)
    /\ counted' = [counted EXCEPT ![obj[w]] = @ + 1]
    /\ pc' = [pc EXCEPT ![w] = "addTotal"]
    /\ UNCHANGED <<obj, j, uploadErr, sleepTime, remaining, uploadedBytes,
                   redundantBytes, totalBytes, configVars, attemptVars, fnVars,
                   transferred, producerVars, uploadQueue, sometimesVars, snapVars,
                   logVars, dequeues>>

\* variant: redundantBytes is added first, totalBytes by the next statement
AddRedundantFirst(w) ==
    /\ Running /\ w \in Workers /\ pc[w] = "addTotal"
    /\ redundantBytes' =
          AtomicAdd(redundantBytes, redundantSize(ObjSize(obj[w]), MinShards, TotalShards))
    /\ pc' = [pc EXCEPT ![w] = "addRedundant"]
    /\ UNCHANGED <<obj, j, uploadErr, sleepTime, remaining, uploadedBytes, totalBytes,
                   uploadedObjects, configVars, attemptVars, fnVars, transferred,
                   producerVars, uploadQueue, sometimesVars, snapVars, logVars,
                   dequeues, counted>>

\* atomic.AddUint64(&totalBytes, redundantSize)
AddTotalBytes(w) ==
    /\ Running /\ w \in Workers /\ pc[w] = "addTotal"
    /\ totalBytes' =
          AtomicAdd(totalBytes, redundantSize(ObjSize(obj[w]), MinShards, TotalShards))
    /\ pc' = [pc EXCEPT ![w] = "addRedundant"]
    /\ UNCHANGED <<obj, j, uploadErr, sleepTime, remaining, uploadedBytes,
                   redundantBytes, uploadedObjects, configVars, attemptVars, fnVars,
                   transferred, producerVars, uploadQueue, sometimesVars, snapVars,
                   logVars, dequeues, counted>>

\* atomic.AddUint64(&redundantBytes, redundantSize); log "upload complete"
AddRedundantBytes(w) ==
    /\ Running /\ w \in Workers /\ pc[w] = "addRedundant"
    /\ redundantBytes' =
          AtomicAdd(redundantBytes, redundantSize(ObjSize(obj[w]), MinShards, TotalShards))
    /\ completeLog' = completeLog + 1
    /\ pc' = [pc EXCEPT ![w] = "logProgress"]
    /\ UNCHANGED <<obj, j, uploadErr, sleepTime, remaining, uploadedBytes, totalBytes,
                   uploadedObjects, configVars, attemptVars, fnVars, transferred,
                   producerVars, uploadQueue, sometimesVars, snapVars, progressLog,
                   sinceEmit, failedLog, dequeues, counted>>

(* ---- logProgress: main.go:191-200, s.Do of rate.Sometimes ---- *)

\* variant: no interval gate, f runs on every call
AlwaysDue == TRUE

\* the condition under which Sometimes.Do runs f (First and Every are zero)
SometimesDue == sCount = 0 \/ sinceLast >= Interval

\* s.Do takes the mutex and finds f due: f starts under the mutex
SometimesRun(w) ==
    /\ Running /\ w \in Workers /\ pc[w] = "logProgress"
    /\ sMu = 0
    /\ SometimesDue
    /\ sMu' = w
    /\ pc' = [pc EXCEPT ![w] = "loadRedundant"]
    /\ UNCHANGED <<obj, j, uploadErr, sleepTime, remaining, sCount, sinceLast,
                   configVars, attemptVars, fnVars, transferred, producerVars,
                   uploadQueue, counterVars, snapVars, logVars, dequeues, counted>>

\* s.Do takes the mutex, finds f not due, counts the call and returns
SometimesSkip(w) ==
    /\ Running /\ w \in Workers /\ pc[w] = "logProgress"
    /\ sMu = 0
    /\ ~SometimesDue
    /\ sCount' = sCount + 1
    /\ pc' = [pc EXCEPT ![w] = "recv"]
    /\ obj' = [obj EXCEPT ![w] = 0]
    /\ UNCHANGED <<j, uploadErr, sleepTime, remaining, sMu, sinceLast, configVars,
                   attemptVars, fnVars, transferred, producerVars, uploadQueue,
                   counterVars, snapVars, logVars, dequeues, counted>>

\* uploadedBytes := atomic.LoadUint64(&redundantBytes)   (a local that shadows the counter)
LoadRedundant(w) ==
    /\ Running /\ w \in Workers /\ pc[w] = "loadRedundant"
    /\ ldRedundant' = redundantBytes
    /\ pc' = [pc EXCEPT ![w] = "loadTotal"]
    /\ UNCHANGED <<obj, j, uploadErr, sleepTime, remaining, ldTotal, ldN, configVars,
                   attemptVars, fnVars, transferred, producerVars, uploadQueue,
                   counterVars, sometimesVars, logVars, dequeues, counted>>

\* totalBytes := atomic.LoadUint64(&totalBytes)
LoadTotal(w) ==
    /\ Running /\ w \in Workers /\ pc[w] = "loadTotal"
    /\ ldTotal' = totalBytes
    /\ pc' = [pc EXCEPT ![w] = "loadN"]
    /\ UNCHANGED <<obj, j, uploadErr, sleepTime, remaining, ldRedundant, ldN,
                   configVars, attemptVars, fnVars, transferred, producerVars,
                   uploadQueue, counterVars, sometimesVars, logVars, dequeues,
                   counted>>

\* n := atomic.LoadUint64(&uploadedObjects)
LoadN(w) ==
    /\ Running /\ w \in Workers /\ pc[w] = "loadN"
    /\ ldN' = uploadedObjects
    /\ pc' = [pc EXCEPT ![w] = "emit"]
    /\ UNCHANGED <<obj, j, uploadErr, sleepTime, remaining, ldRedundant, ldTotal,
                   configVars, attemptVars, fnVars, transferred, producerVars,
                   uploadQueue, counterVars, sometimesVars, logVars, dequeues,
                   counted>>

\* the fields of the "upload progress" line of main.go:198; "bytes" loads the local
\* uploadedBytes, which holds the value read from redundantBytes
ProgressLine ==
    [bytes |-> ldRedundant, redundantBytes |-> ldRedundant,
     objects |-> ldN, totalBytes |-> ldTotal]

\* log.Info("upload progress", ...)
EmitProgress(w) ==
    /\ Running /\ w \in Workers /\ pc[w] = "emit"
    /\ progressLog' = Append(progressLog, ProgressLine)
    /\ sinceEmit' = 0
    /\ pc' = [pc EXCEPT ![w] = "setLast"]
    /\ UNCHANGED <<obj, j, uploadErr, sleepTime, remaining, completeLog, failedLog,
                   configVars, attemptVars, fnVars, transferred, producerVars,
                   uploadQueue, counterVars, sometimesVars, snapVars, dequeues,
                   counted>>

\* f returned: s.last = time.Now(); s.count++; the mutex is released
SometimesDone(w) ==
    /\ Running /\ w \in Workers /\ pc[w] = "setLast"
    /\ sinceLast' = 0
    /\ sCount' = sCount + 1
    /\ sMu' = 0
    /\ ldRedundant' = 0 /\ ldTotal' = 0 /\ ldN' = 0
    /\ pc' = [pc EXCEPT ![w] = "recv"]
    /\ obj' = [obj EXCEPT ![w] = 0]
    /\ UNCHANGED <<j, uploadErr, sleepTime, remaining, configVars, attemptVars, fnVars,
                   transferred, producerVars, uploadQueue, counterVars, logVars,
                   dequeues, counted>>

(* ---- time ---- *)

\* the clock advances to the wake-up time of a sleeper, or by half an interval;
\* elapsed times are kept up to Interval, beyond which the code treats them alike
TickSteps == {remaining[w] : w \in {x \in Workers : remaining[x] > 0}} \cup {Interval \div 2}

Tick ==
    /\ Running
    /\ \E d \in TickSteps :
          /\ remaining' = [w \in Workers |-> Max(0, remaining[w] - d)]
          /\ sinceLast' = Min(Interval, sinceLast + d)
          /\ sinceEmit' = Min(Interval, sinceEmit + d)
    /\ UNCHANGED <<pc, obj, j, uploadErr, sleepTime, sCount, sMu, progressLog,
                   completeLog, failedLog, configVars, attemptVars, fnVars,
                   transferred, producerVars, uploadQueue, counterVars, snapVars,
                   dequeues, counted>>

(* ---- specifications ---- *)

Next ==
    \/ ListError \/ ListPage \/ Send \/ MainReturn
    \/ Tick
    \/ \E w \in 1..MaxThreads :
          \/ Dequeue(w) \/ AttemptOK(w) \/ AttemptFail(w, MaxJ) \/ Wake(w)
          \/ AddUploadedBytes(w) \/ AddUploadedObjects(w) \/ AddTotalBytes(w)
          \/ AddRedundantBytes(w)
          \/ SometimesRun(w) \/ SometimesSkip(w) \/ LoadRedundant(w) \/ LoadTotal(w)
          \/ LoadN(w) \/ EmitProgress(w) \/ SometimesDone(w)

Spec == Init /\ [][Next]_vars

\* a step of worker goroutine w
WorkerStep(w) ==
    \/ Dequeue(w) \/ AttemptOK(w) \/ AttemptFail(w, MaxJ) \/ Wake(w)
    \/ AddUploadedBytes(w) \/ AddUploadedObjects(w) \/ AddTotalBytes(w)
    \/ AddRedundantBytes(w)
    \/ SometimesRun(w) \/ SometimesSkip(w) \/ LoadRedundant(w) \/ LoadTotal(w)
    \/ LoadN(w) \/ EmitProgress(w) \/ SometimesDone(w)

\* the Go scheduler lets every goroutine that can run do so, the source answers
\* every page request, and time passes; an attempt fails at most MaxJ times in a row
Fairness ==
    /\ WF_vars(ListPage) /\ WF_vars(Send) /\ WF_vars(MainReturn)
    /\ WF_vars(Tick)
    /\ \A w \in 1..MaxThreads : WF_vars(WorkerStep(w))

SpecFair == Spec /\ Fairness

\* a second run: the destination already holds every listed object
InitRerun ==
    /\ threads \in 0..MaxThreads
    /\ numObjects \in 1..MaxObjects
    /\ held = 1..numObjects
    /\ Start
    /\ fnIn = [f |-> "none"]

SpecRerun == InitRerun /\ [][Next]_vars

\* the end-to-end scenario: three objects of sizes 0, 1 and 10 sectors, empty destination
InitThree ==
    /\ threads \in 1..MaxThreads
    /\ numObjects = 3
    /\ held = {}
    /\ Start
    /\ fnIn = [f |-> "none"]

SpecThree == InitThree /\ [][Next]_vars

\* one worker and two objects; the first object may fail RetryMaxJ attempts in a
\* row, which takes the backoff to its ceiling, the second one MaxJ attempts
InitRetry ==
    /\ threads = 1
    /\ numObjects = 2
    /\ held = {}
    /\ Start
    /\ fnIn = [f |-> "none"]

RetryBound(w) == IF obj[w] = 1 THEN RetryMaxJ ELSE MaxJ

NextRetry ==
    \/ ListError \/ ListPage \/ Send \/ MainReturn
    \/ Tick
    \/ \E w \in 1..MaxThreads :
          \/ Dequeue(w) \/ AttemptOK(w) \/ AttemptFail(w, RetryBound(w)) \/ Wake(w)
          \/ AddUploadedBytes(w) \/ AddUploadedObjects(w) \/ AddTotalBytes(w)
          \/ AddRedundantBytes(w)
          \/ SometimesRun(w) \/ SometimesSkip(w) \/ LoadRedundant(w) \/ LoadTotal(w)
          \/ LoadN(w) \/ EmitProgress(w) \/ SometimesDone(w)

SpecRetry == InitRetry /\ [][NextRetry]_vars

\* two workers and two objects, each of which may fail PairMaxJ attempts in a row
InitPair ==
    /\ threads = 2
    /\ numObjects = 2
    /\ held = {}
    /\ Start
    /\ fnIn = [f |-> "none"]

NextPair ==
    \/ ListError \/ ListPage \/ Send \/ MainReturn
    \/ Tick
    \/ \E w \in 1..MaxThreads :
          \/ Dequeue(w) \/ AttemptOK(w) \/ AttemptFail(w, PairMaxJ) \/ Wake(w)
          \/ AddUploadedBytes(w) \/ AddUploadedObjects(w) \/ AddTotalBytes(w)
          \/ AddRedundantBytes(w)
          \/ SometimesRun(w) \/ SometimesSkip(w) \/ LoadRedundant(w) \/ LoadTotal(w)
          \/ LoadN(w) \/ EmitProgress(w) \/ SometimesDone(w)

SpecPair == InitPair /\ [][NextPair]_vars

(* ---- redundantSize applied on its own: main.go:106-108 ---- *)

\* object sizes: those of the listing, a size one byte over a whole number of
\* stripes, and the sizes around 2^MantissaBits
Sizes ==
    {Bits(ObjSize(k)) : k \in 1..(MaxObjects + 1)}
        \cup {Bits(MinShards * SectorSize + 1)}
        \cup {Low(Shl(<<1, 1>>, MantissaBits - 1), MantissaBits),
              Pow2(MantissaBits), Add(Pow2(MantissaBits), <<1>>)}

\* <<minShards, totalShards>>
ShardPairs == {<<1, 1>>, <<1, 3>>, <<2, 3>>, <<MinShards, TotalShards>>}

InitSize ==
    /\ threads = 0 /\ numObjects = 0 /\ held = {}
    /\ Start
    /\ \E s1, s2 \in Sizes, p \in ShardPairs :
          /\ Leq(s1, s2)
          /\ fnIn = [f |-> "redundantSize", size |-> s1, larger |-> s2,
                     minShards |-> p[1], totalShards |-> p[2]]

\* redundantSize is called on each of the two sizes
ApplyRedundantSize ==
    /\ fnIn.f = "redundantSize" /\ fnOut = <<>>
    /\ fnOut' = <<redundantSize64(fnIn.size, fnIn.minShards, fnIn.totalShards),
                  redundantSize64(fnIn.larger, fnIn.minShards, fnIn.totalShards)>>
    /\ UNCHANGED <<fnIn, configVars, attemptVars, transferred, producerVars,
                   uploadQueue, workerVars, counterVars, sometimesVars, snapVars,
                   logVars, dequeues, counted>>

NextSize == ApplyRedundantSize

SpecSize == InitSize /\ [][NextSize]_vars

(* ---- the backoff computation applied on its own: main.go:229-232 ---- *)

\* the retry loop of one object whose attempts all fail, reduced to its counter:
\* fnIn.j is j, fnIn.base the jitter draw, fnIn.pow the power the draw is raised to
InitBackoff ==
    /\ threads = 0 /\ numObjects = 0 /\ held = {}
    /\ Start
    /\ \E base \in Bases : fnIn = [f |-> "sleepTime", base |-> base, j |-> 0, pow |-> <<1>>]

\* sleepTime is computed for the attempt number fnIn.j
ApplySleepTime ==
    /\ fnIn.f = "sleepTime" /\ fnOut = <<>>
    /\ \E conv \in Int64OfFloat(PowFloor(fnIn.base, fnIn.pow, fnIn.j)) :
          fnOut' = <<SleepTime64(conv)>>
    /\ UNCHANGED <<fnIn, configVars, attemptVars, transferred, producerVars,
                   uploadQueue, workerVars, counterVars, sometimesVars, snapVars,
                   logVars, dequeues, counted>>

\* j++ after the sleep, as long as the next power is one the model computes exactly
NextAttempt ==
    /\ fnIn.f = "sleepTime" /\ fnOut # <<>>
    /\ fnIn.j < MaxBackoffJ
    /\ PowExact(fnIn.base, MulSmall(fnIn.pow, fnIn.base[1]))
    /\ fnIn' = [fnIn EXCEPT !.j = @ + 1, !.pow = MulSmall(@, fnIn.base[1])]
    /\ fnOut' = <<>>
    /\ UNCHANGED <<configVars, attemptVars, transferred, producerVars, uploadQueue,
                   workerVars, counterVars, sometimesVars, snapVars, logVars,
                   dequeues, counted>>

NextBackoff == ApplySleepTime \/ NextAttempt

SpecBackoff == InitBackoff /\ [][NextBackoff]_vars

(* ---- properties ---- *)

Sent == next - 1
InFlight == {w \in Workers : pc[w] \in {"upload", "sleep"}}
Holding == {w \in Workers : pc[w] # "recv"}
AllIdle == \A w \in Workers : pc[w] = "recv"
\* workers whose transfer succeeded and whose counter updates are not finished
Counting == {w \in Workers : pc[w] \in {"afterLoop", "addObjects", "addTotal", "addRedundant"}}
Outstanding == Sent - Cardinality(transferred)

RECURSIVE SumOver(_, _)
SumOver(f, S) == IF S = {} THEN 0
                 ELSE LET k == CHOOSE x \in S : TRUE IN f[k] + SumOver(f, S \ {k})

\* C1: every enqueued object is received by at most one worker, no two workers hold
\* the same object at the same time, and each object is added to the counters at
\* most once.
C1_OneWorkerPerObject ==
    /\ \A o \in Objects : dequeues[o] <= 1 /\ counted[o] <= 1
    /\ \A w1, w2 \in Holding : w1 # w2 => obj[w1] # obj[w2]
    /\ uploadedObjects <= Sent
    /\ uploadedBytes <= SumSize(1..Sent)
    /\ totalBytes <= SumRedundant(1..Sent)
    /\ redundantBytes <= SumRedundant(1..Sent)

C1_Witness ==
    /\ threads = 2
    /\ pc[1] = "upload" /\ pc[2] = "sleep"
    /\ uploadQueue = <<>>

\* C2: when the run ends with exit code zero the queue is drained, every worker
\* has finished, and objectsCompleted equals the number of listed objects.
C2_CleanExitDrained ==
    exitCode = 0 =>
        /\ uploadQueue = <<>>
        /\ AllIdle
        /\ transferred = Objects
        /\ uploadedObjects = numObjects

\* C3: an object the destination already holds is never enqueued and never
\* transferred; against a fully populated destination nothing is transferred.
C3_PresentNeverEnqueued ==
    /\ \A i \in 1..Len(uploadQueue) : uploadQueue[i] \notin held
    /\ \A w \in Holding : obj[w] \notin held
    /\ transferred \cap held = {}

\* C4: at most C + N = 2 * threads objects are enqueued and not yet transferred, at
\* most N transfers are in flight, and the producer completes no enqueue while C + N
\* objects are outstanding or while the channel is full.
C4_Backpressure ==
    /\ [](/\ Outstanding <= 2 * threads
          /\ Cardinality(InFlight) <= threads
          /\ Len(uploadQueue) <= threads)
    /\ [][(Outstanding = 2 * threads \/ Len(uploadQueue) = threads) => next' = next]_vars

C4_Witness ==
    /\ threads = 1
    /\ Outstanding = 2 * threads
    /\ mainPc = "send"
    /\ InFlight # {}

\* C5: the counters and the "upload complete" line are reached only with a nil
\* uploadErr, after an attempt for that object succeeded; failed attempts add nothing.
C5_FailedNeverCounted ==
    /\ \A w \in Counting \cup {x \in Workers : pc[x] = "logProgress"} :
          uploadErr[w] = "nil" /\ obj[w] \in transferred
    /\ \A o \in Objects : counted[o] > 0 => o \in transferred
    /\ uploadedBytes <= SumSize(transferred)
    /\ uploadedObjects <= Cardinality(transferred)
    /\ totalBytes <= SumRedundant(transferred)
    /\ redundantBytes <= SumRedundant(transferred)
    /\ completeLog <= Cardinality(transferred)

C5_Witness ==
    \E w \in Workers :
        /\ pc[w] = "upload" /\ j[w] > 0 /\ obj[w] = 2
        /\ transferred = {1}
        /\ uploadedBytes = ObjSize(1) /\ uploadedObjects = 1

\* C6: no update of uploadedObjects is lost: the counter always equals the number of
\* succeeded transfers minus those whose worker has not yet added them, so it equals
\* the number of succeeded transfers when all workers are idle; it never decreases and
\* never exceeds the number of objects dequeued.
C6_NoLostUpdate ==
    /\ [](/\ uploadedObjects = Cardinality(transferred)
                 - Cardinality({w \in Workers : pc[w] \in {"afterLoop", "addObjects"}})
          /\ (AllIdle => uploadedObjects = Cardinality(transferred))
          /\ uploadedObjects <= SumOver(dequeues, Objects))
    /\ [][uploadedObjects' >= uploadedObjects]_vars

C6_Witness ==
    /\ threads = 2
    /\ pc[1] = "addTotal" /\ pc[2] = "addTotal"
    /\ uploadedObjects = 2

\* the byte counters are the sums over the objects transferred, whenever no worker is
\* between a successful transfer and its last counter update
ByteTotalsExact ==
    Counting = {} =>
        /\ uploadedBytes = SumSize(transferred)
        /\ redundantBytes = SumRedundant(transferred)
        /\ totalBytes = SumRedundant(transferred)

\* C7: the byte counters are exact sums, and a run over three objects against an
\* empty destination ends with 3 enqueues, 3 transfers, objectsCompleted = 3 and
\* redundantBytesTotal the sum of the three redundant sizes.
C7_ByteTotalsAndScenario ==
    /\ ByteTotalsExact
    /\ (exitCode = 0 /\ numObjects = 3 /\ held = {}) =>
          /\ Sent = 3
          /\ Cardinality(transferred) = 3
          /\ uploadedObjects = 3
          /\ totalBytes = SumRedundant(1..3)

\* C8 as claimed: once the backoff has reached its ceiling the retry loop ends, the
\* worker starts no further attempt for the object.
C8_RetryLoopEnds ==
    [][\A w \in Workers :
          (pc[w] = "sleep" /\ sleepTime[w] = MaxSleep) => pc'[w] # "upload"]_vars

\* C8 as amended: the retry loop never gives up. A failed attempt is followed by a
\* sleep and another attempt, also at the backoff ceiling; the loop is left only by
\* a successful attempt, "upload failed" is never logged, a failed transfer never
\* ends the process, and an object in the retry loop is not counted.
C8_RetryForever ==
    /\ [](/\ failedLog = 0
          /\ \A w \in InFlight : counted[obj[w]] = 0 /\ obj[w] \notin transferred
          /\ (exitCode = 1 => fatalLog))
    /\ [][\A w \in Workers :
             /\ pc[w] = "sleep" => pc'[w] \in {"sleep", "upload"}
             /\ (pc[w] = "upload" /\ pc'[w] # "upload") =>
                   \/ pc'[w] = "sleep" /\ uploadErr'[w] # "nil"
                   \/ pc'[w] = "afterLoop" /\ uploadErr'[w] = "nil"]_vars

C8_Witness ==
    \E w \in Workers : pc[w] = "upload" /\ j[w] > 0 /\ OverMinute(<<2, 1>>, j[w] - 1)

\* C9: once a page fetch has failed the process has exited with status 1, every
\* object of the pages fetched before was enqueued, and none of the failing page or
\* of a later page is.
C9_ListingErrorFatal ==
    fatalLog =>
        /\ mainPc = "exited"
        /\ exitCode = 1
        /\ Sent = PageEnd(pageNo)

C9_Witness ==
    /\ fatalLog
    /\ pageNo = 1 /\ numObjects = 2
    /\ InFlight # {}

\* C10: an "upload progress" line is written only when none was written before or
\* at least one interval has passed since the last one, one line at a time.
C10_Throttled ==
    [][Len(progressLog') # Len(progressLog) =>
          /\ Len(progressLog') = Len(progressLog) + 1
          /\ (progressLog = <<>> \/ sinceEmit >= Interval)]_vars

C10_Witness ==
    /\ Len(progressLog) = 1
    /\ sCount = 2
    /\ sinceEmit = 0

\* C11: every UploadObject call made for an object carries the configured contract
\* set, minimum shard count and total shard count, the shard counts being those the
\* worker passes to redundantSize for the counters.
C11_IngestCarriesConfig ==
    \A o \in ingestOpts : o = workerUploadObject(ContractSet, MinShards, TotalShards)

\* ceil(size / (minShards * SectorSize)) in exact integer arithmetic
ExactStripes(size, minShards) ==
    LET d == DivSmall(Shr(size, SectorBits), minShards)
    IN IF d.r = 0 /\ Low(size, SectorBits) = <<>> THEN d.q ELSE Add(d.q, <<1>>)

\* C12: redundantSize(S, m, t) is ceil(S / (m * SectorSize)) * t * SectorSize: at
\* least S * t / m, zero for S = 0, a whole multiple of t * SectorSize, and
\* non-decreasing in S.
C12_RedundantSizeFormula ==
    (fnIn.f = "redundantSize" /\ fnOut # <<>>) =>
        LET m == fnIn.minShards
            t == fnIn.totalShards
        IN /\ fnOut[1] = Shl(MulSmall(ExactStripes(fnIn.size, m), t), SectorBits)
           /\ Leq(MulSmall(fnIn.size, t), MulSmall(fnOut[1], m))
           /\ (fnIn.size = <<>> => fnOut[1] = <<>>)
           /\ Low(fnOut[1], SectorBits) = <<>>
           /\ DivSmall(Shr(fnOut[1], SectorBits), t).r = 0
           /\ Leq(fnOut[1], fnOut[2])

\* C13: for the object it holds a worker alternates attempt, "upload attempt failed"
\* line, one sleep, next attempt; the attempt field starts at 1 and grows by one per
\* failed attempt; a failed attempt changes nothing of the producer or of another
\* worker; a worker receives its next object only when it holds none.
C13_RetryStateMachine ==
    /\ [](\A w \in Workers :
             /\ pc[w] = "upload" => attemptLog[w] = j[w]
             /\ pc[w] = "sleep" => attemptLog[w] = j[w] + 1 /\ uploadErr[w] # "nil")
    /\ [][\A w \in Workers :
             /\ (pc[w] = "upload" /\ pc'[w] # "upload") => pc'[w] \in {"sleep", "afterLoop"}
             /\ (pc[w] = "upload" /\ pc'[w] = "sleep") =>
                   /\ attemptLog'[w] = attemptLog[w] + 1
                   /\ UNCHANGED <<producerVars, uploadQueue>>
                   /\ \A v \in Workers \ {w} :
                         pc'[v] = pc[v] /\ obj'[v] = obj[v] /\ j'[v] = j[v]
             /\ (pc[w] = "sleep" /\ pc'[w] # "sleep") =>
                   pc'[w] = "upload" /\ j'[w] = j[w] + 1 /\ obj'[w] = obj[w]
             /\ (pc[w] \notin {"upload", "sleep"}) => attemptLog'[w] = 0
             /\ (obj'[w] # obj[w] /\ obj'[w] # 0) => pc[w] = "recv" /\ obj[w] = 0]_vars

C13_Witness ==
    /\ pc[1] = "sleep" /\ attemptLog[1] = 2 /\ obj[1] = 1
    /\ counted[2] = 1
    /\ mainPc = "list"

\* C14: for every attempt number j and jitter draw the sleep is
\* min(60 s, base^j ms): never negative, never above 60 s, and exactly 60 s whenever
\* base^j ms is above 60 s, however large j is.
C14_BackoffBound ==
    (fnIn.f = "sleepTime" /\ fnOut # <<>>) =>
        /\ ~Negative(fnOut[1])
        /\ Leq(fnOut[1], Minute)
        /\ fnOut[1] = IF Less(Bits(MaxSleep), PowFloor(fnIn.base, fnIn.pow, fnIn.j))
                      THEN Minute
                      ELSE TimesMillisecond(PowFloor(fnIn.base, fnIn.pow, fnIn.j))

\* C15: in every "upload progress" line each field holds a value read from its own
\* counter: "bytes" a value of uploadedBytes (a sum of logical sizes transferred),
\* "redundantBytes" one of redundantBytes, "totalBytes" one of totalBytes and
\* "objects" one of uploadedObjects. The counters only grow, so a value read earlier
\* is at most the counter's present value.
C15_SnapshotFaithful ==
    \A i \in 1..Len(progressLog) :
        /\ progressLog[i].bytes <= uploadedBytes
        /\ \E T \in SUBSET transferred : progressLog[i].bytes = SumSize(T)
        /\ progressLog[i].redundantBytes <= redundantBytes
        /\ \E T \in SUBSET transferred : progressLog[i].redundantBytes = SumRedundant(T)
        /\ progressLog[i].totalBytes <= totalBytes
        /\ \E T \in SUBSET transferred : progressLog[i].totalBytes = SumRedundant(T)
        /\ progressLog[i].objects <= uploadedObjects

\* number of objects received from the channel so far
Dequeued == SumOver(dequeues, Objects)

\* C16: objects are sent in listing order and the channel hands them out first-in
\* first-out: the channel always holds the objects sent and not yet received, oldest
\* first, and the k-th object received by any worker is the k-th object listed.
C16_ListingOrderKept ==
    /\ [](/\ uploadQueue = [i \in 1..(Sent - Dequeued) |-> Dequeued + i]
          /\ \A o \in Objects : dequeues[o] > 0 <=> o <= Dequeued)
    /\ [][/\ next' # next => next' = next + 1 /\ uploadQueue' = Append(uploadQueue, next)
          /\ \A w \in Workers :
                (pc[w] = "recv" /\ pc'[w] # "recv") => obj'[w] = Dequeued + 1]_vars

C16_Witness ==
    /\ threads = 2 /\ numObjects = 3
    /\ obj[2] = 1 /\ obj[1] = 2 /\ pc[1] = "logProgress" /\ pc[2] = "sleep"
    /\ uploadQueue = <<3>>

\* C17: for every thread count, under fair scheduling and with every transfer
\* succeeding in the end, the listing loop terminates, and unless a page fetch
\* failed every listed object has been sent by then.
C17_ProducerNeverStuck ==
    <>(mainPc = "exited" /\ (fatalLog \/ Sent = numObjects))

\* workers inside logProgress that have read redundantBytes and totalBytes
Snapshotting == {w \in Workers : pc[w] \in {"loadN", "emit", "setLast"}}

\* C18: in every reachable state redundantBytes <= totalBytes, also between the
\* values a snapshot reads and in every line it writes, and uploadedBytes already
\* holds the size of every object counted in uploadedObjects.
C18_CounterOrder ==
    /\ redundantBytes <= totalBytes
    /\ \A w \in Snapshotting : ldRedundant <= ldTotal
    /\ \A i \in 1..Len(progressLog) :
          progressLog[i].redundantBytes <= progressLog[i].totalBytes
    /\ uploadedBytes >= SumSize({o \in Objects : counted[o] > 0})
    /\ \E T \in SUBSET Objects :
          /\ Cardinality(T) = uploadedObjects
          /\ SumSize(T) <= uploadedBytes

C18_Witness ==
    /\ threads = 2
    /\ pc[1] = "addRedundant" /\ obj[1] = 2
    /\ redundantBytes < totalBytes
    /\ pc[2] = "loadTotal"

====
